---- MODULE Spec2Model ----
(***************************************************************************)
(* A model of the dependency-graph scheduler of src/main.go: the graph     *)
(* (Dag) with its vertices and adjacency maps, the build operations        *)
(* AddVertex / AddEdge with the cycle test IsCyclic, the readiness test    *)
(* CanExecute / Next, the status writers SetPass / SetFail under the graph *)
(* mutex, and the wave loop ExecuteVertices with its goroutines.           *)
(***************************************************************************)
EXTENDS Integers, Sequences, FiniteSets, TLC

(* ------------------------------ bounds -------------------------------- *)

\* The ids the embedder names in AddEdge when it only builds a graph.
Ids == {"A", "B", "C"}

\* The ids the embedder names, in AddVertex and in AddEdge, when it also
\* runs the graph.
RunIds == {"A", "B"}

\* The greatest Loop an added vertex carries.
MaxLoop == 2

\* The greatest number of edges AddEdge is asked to accept.
MaxEdges == 2

(* ------------------------------ state --------------------------------- *)

VARIABLES
    Vertices,             \* Dag.Vertices: id -> vertex, for the ids added
    ConnectionsParents,   \* Dag.ConnectionsParents: id -> list of parent ids
    ConnectionsChildren,  \* Dag.ConnectionsChildren: id -> list of child ids
    Status,               \* Dag.Status
    IsStarted,            \* Dag.IsStarted
    mu,                   \* Dag.mu: the SetPass/SetFail call holding it, or Unlocked
    pc,                   \* where the caller of ExecuteVertices stands
    verticesToProcess,    \* ExecuteVertices' local: the slice Next returned
    goroutines,           \* per index of verticesToProcess, the attempts not yet begun
    last                  \* the last call of the embedder and how it ended

vars == <<Vertices, ConnectionsParents, ConnectionsChildren, Status, IsStarted,
          mu, pc, verticesToProcess, goroutines, last>>

graph == <<Vertices, ConnectionsParents, ConnectionsChildren, Status, IsStarted>>

\* Status (lines 9-15)
Pending == "Pending"
Passed == "Passed"
Failed == "Failed"

\* A free mutex.
Unlocked == [op |-> "none", id |-> "", idx |-> 0, at |-> "free"]

\* The record of an embedder call.
Call(op, a, b, res, ret) == [op |-> op, a |-> a, b |-> b, res |-> res, ret |-> ret]

\* Vertex struct (lines 17-23); the Dag back-pointer is the one graph.
Vertex(id, loop, canFail) ==
    [ID |-> id, Status |-> Pending, Loop |-> loop, CanFail |-> canFail]

\* NewDag (lines 164-172)
Init ==
    /\ Vertices = <<>>
    /\ ConnectionsParents = [i \in Ids |-> <<>>]
    /\ ConnectionsChildren = [i \in Ids |-> <<>>]
    /\ Status = Pending
    /\ IsStarted = FALSE
    /\ mu = Unlocked
    /\ pc = "idle"
    /\ verticesToProcess = <<>>
    /\ goroutines = <<>>
    /\ last = Call("NewDag", "", "", "ok", <<>>)

(* --------------------------- status queries --------------------------- *)

\* Dag.HasFailed (lines 91-93)
HasFailed(st) == st = Failed

\* Dag.HasSucceeded (lines 95-97)
HasSucceeded(st) == st = Passed

\* HasFinished without the HasFailed() of line 100.
HasFinishedOnlySucceeded(st) == HasSucceeded(st)

\* Dag.HasFinished (lines 99-101)
HasFinished(st) == HasFailed(st) \/ HasSucceeded(st)

\* What the query q returns on a graph of status st (lines 91-101).
Query(q, st) ==
    CASE q = "HasFailed" -> HasFailed(st)
      [] q = "HasSucceeded" -> HasSucceeded(st)
      [] q = "HasFinished" -> HasFinished(st)

(* ------------------------------ building ------------------------------ *)

\* The depth of nested IsCyclic calls beyond which the recursion has come
\* back to a vertex it is already visiting and so never returns: the
\* goroutine stack overflows and the process dies.
StackLimit == Cardinality(Ids)

\* Dag.IsCyclic (lines 124-134): the loop over ConnectionsChildren[to] from
\* its i-th element on, in a call nested `depth` deep.  "true"/"false" are
\* the results returned; "overflow" is the recursion that never returns.
RECURSIVE IsCyclicLoop(_, _, _, _, _)
IsCyclicLoop(children, from, to, i, depth) ==
    IF depth > StackLimit THEN "overflow"
    ELSE IF i > Len(children[to]) THEN "false"
    ELSE LET child == children[to][i] IN
         IF child = from THEN "true"
         ELSE LET r == IsCyclicLoop(children, from, child, 1, depth + 1) IN
              IF r = "false"
              THEN IsCyclicLoop(children, from, to, i + 1, depth)
              ELSE r

\* Dag.IsCyclic (lines 124-134)
IsCyclic(children, from, to) == IsCyclicLoop(children, from, to, 1, 1)

\* The number of edges accepted so far.
RECURSIVE EdgeCount(_, _)
EdgeCount(children, S) ==
    IF S = {} THEN 0
    ELSE LET i == CHOOSE x \in S : TRUE IN
         Len(children[i]) + EdgeCount(children, S \ {i})

\* Dag.AddEdge (lines 111-122): how the call ends.
AddEdgeResult(started, children, from, to) ==
    IF started THEN "panic: started"
    ELSE LET c == IsCyclic(children, from, to) IN
         IF c = "overflow" THEN "fatal: stack overflow"
         ELSE IF c = "true" THEN "panic: cyclic"
         ELSE "ok"

\* AddEdgeParents with line 120 moved above the tests of lines 112-118.
AddEdgeParentsUnchecked(parents, from, to, res) ==
    [parents EXCEPT ![to] = Append(@, from)]

\* Dag.AddEdge (line 120)
AddEdgeParents(parents, from, to, res) ==
    IF res = "ok" THEN [parents EXCEPT ![to] = Append(@, from)] ELSE parents

\* Dag.AddEdge (line 121)
AddEdgeChildren(children, from, to, res) ==
    IF res = "ok" THEN [children EXCEPT ![from] = Append(@, to)] ELSE children

\* Dag.AddVertex (lines 103-109): how the call ends.
AddVertexResult(started) == IF started THEN "panic: started" ELSE "ok"

\* Dag.AddVertex (line 108)
AddVertexVertices(vs, v, res) ==
    IF res = "ok" THEN (v.ID :> v) @@ vs ELSE vs

\* The embedder is between calls: no ExecuteVertices in progress, no
\* SetPass/SetFail in progress, and the process has not died.
Idle ==
    /\ pc \in {"idle", "done"}
    /\ mu = Unlocked
    /\ last.res # "fatal: stack overflow"

AddVertex(v) ==
    /\ Idle
    /\ LET res == AddVertexResult(IsStarted) IN
       /\ Vertices' = AddVertexVertices(Vertices, v, res)
       /\ last' = Call("AddVertex", v.ID, "", res, <<>>)
    /\ UNCHANGED <<ConnectionsParents, ConnectionsChildren, Status, IsStarted,
                   mu, pc, verticesToProcess, goroutines>>

AddEdge(from, to) ==
    /\ Idle
    /\ LET res == AddEdgeResult(IsStarted, ConnectionsChildren, from, to) IN
       /\ res = "ok" => EdgeCount(ConnectionsChildren, Ids) < MaxEdges
       /\ ConnectionsParents' = AddEdgeParents(ConnectionsParents, from, to, res)
       /\ ConnectionsChildren' = AddEdgeChildren(ConnectionsChildren, from, to, res)
       /\ last' = Call("AddEdge", from, to, res, <<>>)
    /\ UNCHANGED <<Vertices, Status, IsStarted, mu, pc, verticesToProcess, goroutines>>

\* Dag.HasFailed / HasSucceeded / HasFinished (lines 91-101), called by the
\* embedder, as main does at lines 203-207.
CallQuery(q) ==
    /\ Idle
    /\ last' = Call(q, "", "", IF Query(q, Status) THEN "true" ELSE "false", <<>>)
    /\ UNCHANGED <<graph, mu, pc, verticesToProcess, goroutines>>

(* ------------------------------ readiness ----------------------------- *)

\* Dag.CanExecute (lines 78-89): the loop over ConnectionsParents[v.ID] from
\* its i-th element on, then the test of v's own status.
RECURSIVE CanExecuteLoop(_, _, _, _)
CanExecuteLoop(vs, plist, i, v) ==
    IF i > Len(plist) THEN v.Status = Pending
    ELSE LET parentID == plist[i] IN
         IF parentID \notin DOMAIN vs \/ vs[parentID].Status = Pending
         THEN FALSE
         ELSE CanExecuteLoop(vs, plist, i + 1, v)

\* CanExecute with line 81 asking for a parent that has Passed.
CanExecuteParentsPassed(vs, parents, v) ==
    /\ v.Status = Pending
    /\ \A i \in DOMAIN parents[v.ID] :
          /\ parents[v.ID][i] \in DOMAIN vs
          /\ vs[parents[v.ID][i]].Status = Passed

\* CanExecute without the loop over the parents.
CanExecuteOwnStatus(vs, parents, v) == v.Status = Pending

\* Dag.CanExecute (lines 78-89)
CanExecute(vs, parents, v) == CanExecuteLoop(vs, parents[v.ID], 1, v)

\* Dag.Next (lines 69-75): the copies of the vertices that can execute.
NextVertices(vs, parents) ==
    {vs[id] : id \in {x \in DOMAIN vs : CanExecute(vs, parents, vs[x])}}

\* The orders in which ranging over the map Vertices can append the set S
\* to the slice (line 70): Go leaves the iteration order of a map open.
RangeOrders(S) ==
    {s \in [1..Cardinality(S) -> S] : \A i, j \in DOMAIN s : s[i] = s[j] => i = j}

\* NextResult without the test of line 65.
NextResultUntested(st) == "ok"

\* Dag.Next (lines 65-67): how the call ends.
NextResult(st) == IF HasFailed(st) THEN "panic: failed" ELSE "ok"

\* Dag.Next (lines 62-76), called by the embedder.
CallNext ==
    /\ Idle
    /\ IsStarted' = TRUE
    /\ LET res == NextResult(Status) IN
       IF res = "ok"
       THEN \E s \in RangeOrders(NextVertices(Vertices, ConnectionsParents)) :
                last' = Call("Next", "", "", res, s)
       ELSE last' = Call("Next", "", "", res, <<>>)
    /\ UNCHANGED <<Vertices, ConnectionsParents, ConnectionsChildren, Status,
                   mu, pc, verticesToProcess, goroutines>>

(* ---------------------------- status writers -------------------------- *)

\* SetPassVertices without the test of line 32.
SetPassVerticesUnguarded(vs, st, id) == [vs EXCEPT ![id].Status = Passed]

\* Vertex.SetPass (lines 32-34): the vertices after the guarded write.
SetPassVertices(vs, st, id) ==
    IF ~HasFailed(st) THEN [vs EXCEPT ![id].Status = Passed] ELSE vs

\* Vertex.SetFail (lines 40-41): the vertices after the guarded write.
SetFailVertices(vs, st, id) ==
    IF ~HasFailed(st) THEN [vs EXCEPT ![id].Status = Failed] ELSE vs

\* SetFailEscalates without the test of line 42.
SetFailEscalatesAlways(vs, st, id) == ~HasFailed(st)

\* Vertex.SetFail (lines 40-46): whether the call goes on to line 44.
SetFailEscalates(vs, st, id) == ~HasFailed(st) /\ ~vs[id].CanFail

\* Acquires for a Lock() that does not wait for the mutex to be free.
AcquiresAtOnce(m) == TRUE

\* Vertex.SetPass / Vertex.SetFail (lines 30, 38): v.Dag.mu.Lock() returns
\* once the one mutex of the graph is free.
Acquires(m) == m = Unlocked

\* Vertex.SetPass / Vertex.SetFail (lines 30, 38): the embedder calls the
\* method on a vertex of the graph and takes the mutex.
CallSet(op, id) ==
    /\ Idle
    /\ id \in DOMAIN Vertices
    /\ mu' = [op |-> op, id |-> id, idx |-> 0, at |-> "locked"]
    /\ last' = Call(op, id, "", "ok", <<>>)
    /\ UNCHANGED <<graph, pc, verticesToProcess, goroutines>>

\* The goroutine of lines 148-156 started for verticesToProcess[i]: it
\* draws its outcome (line 151), reads vertex.Id() through the pointer to
\* the loop variable v, which holds verticesToProcess[j] for the i or a
\* later j the range loop of line 145 has reached by then (the same i when
\* the build gives each iteration its own v), and takes the mutex.
GoSet(op, i, j) ==
    /\ pc = "wait"
    /\ Acquires(mu)
    /\ i \in DOMAIN goroutines
    /\ goroutines[i] > 0
    /\ j \in i..Len(verticesToProcess)
    /\ goroutines' = [goroutines EXCEPT ![i] = @ - 1]
    /\ mu' = [op |-> op, id |-> verticesToProcess[j].ID, idx |-> i, at |-> "locked"]
    /\ UNCHANGED <<graph, pc, verticesToProcess, last>>

\* Vertex.SetPass (lines 31-35)
SetPass ==
    /\ mu.op = "SetPass"
    /\ mu.at = "locked"
    /\ Vertices' = SetPassVertices(Vertices, Status, mu.id)
    /\ mu' = Unlocked
    /\ UNCHANGED <<ConnectionsParents, ConnectionsChildren, Status, IsStarted,
                   pc, verticesToProcess, goroutines, last>>

\* Vertex.SetFail (lines 39-42)
SetFail ==
    /\ mu.op = "SetFail"
    /\ mu.at = "locked"
    /\ Vertices' = SetFailVertices(Vertices, Status, mu.id)
    /\ mu' = IF SetFailEscalates(Vertices, Status, mu.id)
             THEN [mu EXCEPT !.at = "escalate"]
             ELSE Unlocked
    /\ UNCHANGED <<ConnectionsParents, ConnectionsChildren, Status, IsStarted,
                   pc, verticesToProcess, goroutines, last>>

\* Vertex.SetFail (lines 43-46)
SetFailEscalate ==
    /\ mu.at = "escalate"
    /\ Status' = Failed
    /\ mu' = Unlocked
    /\ UNCHANGED <<Vertices, ConnectionsParents, ConnectionsChildren, IsStarted,
                   pc, verticesToProcess, goroutines, last>>

(* ------------------------------ the wave loop ------------------------- *)

\* Dag.ExecuteVertices (line 136): the embedder calls it; the record of the
\* call keeps the graph status the call found.
CallExecuteVertices ==
    /\ Idle
    /\ pc' = "loop"
    /\ last' = Call("ExecuteVertices", Status, "", "running", <<>>)
    /\ UNCHANGED <<graph, mu, verticesToProcess, goroutines>>

\* Dag.ExecuteVertices (line 137): the loop test, and the return.
LoopTest ==
    /\ pc = "loop"
    /\ IF HasFinished(Status)
       THEN /\ pc' = "done"
            /\ last' = [last EXCEPT !.res = "ok"]
       ELSE /\ pc' = "next"
            /\ last' = last
    /\ UNCHANGED <<graph, mu, verticesToProcess, goroutines>>

\* Dag.ExecuteVertices (line 138) with Dag.Next (lines 62-76).
RunNext ==
    /\ pc = "next"
    /\ IsStarted' = TRUE
    /\ LET res == NextResult(Status) IN
       IF res = "ok"
       THEN /\ \E s \in RangeOrders(NextVertices(Vertices, ConnectionsParents)) :
                   verticesToProcess' = s
            /\ pc' = "dispatch"
            /\ last' = last
       ELSE /\ verticesToProcess' = <<>>
            /\ pc' = "done"
            /\ last' = [last EXCEPT !.res = res]
    /\ UNCHANGED <<Vertices, ConnectionsParents, ConnectionsChildren, Status,
                   mu, goroutines>>

\* DispatchStatus without the assignment of line 141.
DispatchStatusKept(st, vtp) == st

\* Dag.ExecuteVertices (lines 140-142)
DispatchStatus(st, vtp) == IF vtp = <<>> THEN Passed ELSE st

\* Dag.ExecuteVertices (lines 144-158): wg.Add(v.Loop) and v.Loop go
\* statements for each element of the slice.
Dispatched(vtp) == [i \in DOMAIN vtp |-> vtp[i].Loop]

\* Dag.ExecuteVertices (lines 140-158)
Dispatch ==
    /\ pc = "dispatch"
    /\ Status' = DispatchStatus(Status, verticesToProcess)
    /\ goroutines' = Dispatched(verticesToProcess)
    /\ pc' = "wait"
    /\ UNCHANGED <<Vertices, ConnectionsParents, ConnectionsChildren, IsStarted,
                   mu, verticesToProcess, last>>

\* WaitGroup for a wg.Wait() that returns at once.
WaitGroupNoBarrier(gs, m) == 0

\* The WaitGroup counter: the goroutines that have not yet run wg.Done().
WaitGroup(gs, m) ==
    LET RECURSIVE Sum(_)
        Sum(i) == IF i = 0 THEN 0 ELSE gs[i] + Sum(i - 1)
    IN Sum(Len(gs)) + (IF m.idx > 0 THEN 1 ELSE 0)

\* Wait for a barrier that gives up the attempts not yet run once the graph
\* is Failed.
WaitCancelling ==
    /\ pc = "wait"
    /\ mu.idx = 0
    /\ WaitGroup(goroutines, mu) = 0 \/ Status = Failed
    /\ pc' = "loop"
    /\ verticesToProcess' = <<>>
    /\ goroutines' = <<>>
    /\ UNCHANGED <<graph, mu, last>>

\* Dag.ExecuteVertices (line 160)
Wait ==
    /\ pc = "wait"
    /\ WaitGroup(goroutines, mu) = 0
    /\ pc' = "loop"
    /\ verticesToProcess' = <<>>
    /\ goroutines' = <<>>
    /\ UNCHANGED <<graph, mu, last>>

(* ---------------------------- specifications -------------------------- *)

\* The steps of the thread that runs ExecuteVertices.
Scheduler == LoopTest \/ RunNext \/ Dispatch \/ Wait

\* The steps of the goroutines and of SetPass/SetFail calls under way.
Attempt ==
    \/ \E op \in {"SetPass", "SetFail"}, i \in 1..Cardinality(RunIds),
          j \in 1..Cardinality(RunIds) : GoSet(op, i, j)
    \/ SetPass
    \/ SetFail
    \/ SetFailEscalate

Next ==
    \/ \E id \in RunIds, loop \in 0..MaxLoop, canFail \in BOOLEAN :
           AddVertex(Vertex(id, loop, canFail))
    \/ \E from \in RunIds, to \in RunIds : AddEdge(from, to)
    \/ CallNext
    \/ \E op \in {"SetPass", "SetFail"}, id \in RunIds : CallSet(op, id)
    \/ CallExecuteVertices
    \/ \E q \in {"HasFailed", "HasSucceeded", "HasFinished"} : CallQuery(q)
    \/ Scheduler
    \/ Attempt

Spec == Init /\ [][Next]_vars

\* The Go scheduler runs every runnable goroutine and the mutex is handed
\* to every waiter in turn, so the thread of ExecuteVertices and the
\* attempts keep taking their steps.
LiveSpec == Spec /\ WF_vars(Scheduler) /\ WF_vars(Attempt)

\* The embedder only builds: it adds vertices and edges over all of Ids and
\* may freeze the graph with a call of Next.
BuildNext ==
    \/ \E id \in RunIds, canFail \in BOOLEAN : AddVertex(Vertex(id, 1, canFail))
    \/ \E from \in Ids, to \in Ids : AddEdge(from, to)
    \/ CallNext

BuildSpec == Init /\ [][BuildNext]_vars

(* ------------------------------- claims ------------------------------- *)

\* The ids ConnectionsChildren lists under x.
Children(children, x) == {children[x][i] : i \in DOMAIN children[x]}

RECURSIVE Closure(_, _)
Closure(children, S) ==
    LET T == S \cup UNION {Children(children, x) : x \in S} IN
    IF T = S THEN S ELSE Closure(children, T)

\* The ids reached from x along one or more child edges.
Descendants(children, x) == Closure(children, Children(children, x))

\* No id is reached from itself along child edges.
Acyclic(children) == \A x \in Ids : x \notin Descendants(children, x)

\* The elements of a slice.
Elems(s) == {s[i] : i \in DOMAIN s}

\* ExecuteVertices is under way.
Running == pc \in {"loop", "next", "dispatch", "wait"}

\* ExecuteVertices has just returned.
Returned == pc = "done" /\ last.op = "ExecuteVertices" /\ mu = Unlocked

\* C1: after any sequence of AddEdge calls on a graph that has not started,
\* accepted or rejected, with from = to among them, the child edges contain
\* no directed cycle.
C1_ChildrenAcyclic == Acyclic(ConnectionsChildren)

\* C2: during ExecuteVertices, once the graph status is Failed no vertex's
\* status changes any more, also not through the attempts of the wave that
\* are still in flight; every SetPass/SetFail on a Failed graph is a no-op.
C2_FailedFreezesVertices ==
    [][(Status = Failed /\ (Running \/ SetPass \/ SetFail))
          => Vertices' = Vertices]_vars

\* C2 witness: the graph has become Failed in a wave and an attempt of that
\* wave holds the mutex for a SetPass that would change its vertex.
C2_Witness ==
    /\ pc = "wait"
    /\ Status = Failed
    /\ mu.op = "SetPass" /\ mu.idx > 0 /\ mu.at = "locked"
    /\ Vertices[mu.id].Status # Passed

\* What the claim C3 says CanExecute is, for the vertex registered as id.
Ready(id) ==
    /\ Vertices[id].Status = Pending
    /\ \A i \in DOMAIN ConnectionsParents[id] :
          /\ ConnectionsParents[id][i] \in DOMAIN Vertices
          /\ Vertices[ConnectionsParents[id][i]].Status # Pending

\* A slice holds exactly the ready vertices, each once.
ExactlyReady(s) ==
    /\ Elems(s) = {Vertices[id] : id \in {x \in DOMAIN Vertices : Ready(x)}}
    /\ Len(s) = Cardinality(Elems(s))

\* C3: for every registered vertex, in every state, CanExecute holds iff the
\* vertex is Pending and every listed parent id is a registered vertex that
\* is not Pending; Next returns exactly the vertices for which this holds,
\* to ExecuteVertices and to the embedder alike.
C3_Readiness ==
    /\ \A id \in DOMAIN Vertices :
          CanExecute(Vertices, ConnectionsParents, Vertices[id]) <=> Ready(id)
    /\ pc = "dispatch" => ExactlyReady(verticesToProcess)
    /\ (last.op = "Next" /\ last.res = "ok") => ExactlyReady(last.ret)

\* C3 witness: Next has returned, to ExecuteVertices, a vertex without
\* parents and has left out a registered vertex whose parent is Pending.
C3_Witness ==
    /\ pc = "dispatch"
    /\ \E i \in DOMAIN verticesToProcess :
          ConnectionsParents[verticesToProcess[i].ID] = <<>>
    /\ \E id \in DOMAIN Vertices :
          /\ Vertices[id].Status = Pending
          /\ Vertices[id] \notin Elems(verticesToProcess)

C5_PassedMeansResolved ==
    (/\ Returned
     /\ Status = Passed
     /\ Acyclic(ConnectionsChildren)
     /\ \A id \in DOMAIN Vertices : Vertices[id].Loop >= 1)
        => \A id \in DOMAIN Vertices : Vertices[id].Status \in {Passed, Failed}

\* C6: the graph status, once Passed or Failed, never changes again, through
\* any sequence of ExecuteVertices, Next, SetPass and SetFail calls.
C6_StatusTerminal ==
    [][(Status = Passed \/ Status = Failed) => Status' = Status]_vars

\* C7: AddEdge(from, to) on a graph that has not started is rejected as
\* cyclic iff from is reached from to along the child edges present before
\* the call, and is accepted otherwise.
C7_RejectedIffReachable ==
    [][\A from \in Ids, to \in Ids :
          (~IsStarted /\ AddEdge(from, to))
             => /\ last'.res = "panic: cyclic"
                     <=> from \in Descendants(ConnectionsChildren, to)
                /\ last'.res = "ok"
                     <=> from \notin Descendants(ConnectionsChildren, to)]_vars

\* C8: an AddEdge call that is rejected, for a cycle or for a started graph,
\* leaves both adjacency maps, the vertices, IsStarted and the graph status
\* as they were.
C8_RejectedEdgeChangesNothing ==
    [][\A from \in Ids, to \in Ids :
          (AddEdge(from, to) /\ last'.res # "ok") => UNCHANGED graph]_vars

\* C8 witness: on a graph that has not started, an AddEdge has been
\* rejected for a cycle through a vertex in between (from is no child of to
\* but a child of a child), as C -> A is after A -> B and B -> C.
C8_Witness ==
    /\ last.op = "AddEdge"
    /\ last.res = "panic: cyclic"
    /\ ~IsStarted
    /\ last.a \notin Children(ConnectionsChildren, last.b)
    /\ ConnectionsParents[last.b] = <<>>

\* C9: IsStarted becomes true on the first Next or ExecuteVertices call and
\* never returns to false; from then on every AddVertex and AddEdge call
\* fails and leaves the vertices and both adjacency maps unchanged.
C9_FrozenAfterStart ==
    [][/\ IsStarted => IsStarted'
       /\ (last'.op = "Next" \/ Returned') => IsStarted'
       /\ \A from \in Ids, to \in Ids :
             (IsStarted /\ AddEdge(from, to))
                => /\ last'.res # "ok"
                   /\ UNCHANGED <<Vertices, ConnectionsParents, ConnectionsChildren>>
       /\ \A id \in RunIds, loop \in 0..MaxLoop, canFail \in BOOLEAN :
             (IsStarted /\ AddVertex(Vertex(id, loop, canFail)))
                => /\ last'.res # "ok"
                   /\ UNCHANGED <<Vertices, ConnectionsParents, ConnectionsChildren>>
      ]_vars

\* C10: SetFail on a vertex with CanFail = true changes that vertex's
\* status alone: the graph status, the other vertices and the adjacency
\* stay, and the call does not go on to fail the graph.
C10_AbsorbedFailure ==
    [][(SetFail /\ Vertices[mu.id].CanFail)
          => /\ Status' = Status
             /\ mu' = Unlocked
             /\ \A id \in DOMAIN Vertices \ {mu.id} : Vertices'[id] = Vertices[id]
             /\ DOMAIN Vertices' = DOMAIN Vertices
             /\ UNCHANGED <<ConnectionsParents, ConnectionsChildren, IsStarted>>
      ]_vars

\* C10 witness: ExecuteVertices has returned Passed with a vertex Failed,
\* every failed vertex having CanFail = true.
C10_Witness ==
    /\ Returned
    /\ Status = Passed
    /\ \E id \in DOMAIN Vertices : Vertices[id].Status = Failed
    /\ \A id \in DOMAIN Vertices :
          Vertices[id].Status = Failed => Vertices[id].CanFail

\* C11: ExecuteVertices called on a graph whose status is already Failed
\* ends in the fatal abort of Next; it does not return as a completed run.
C11_FailedRunAborts ==
    (Returned /\ last.a = Failed) => last.res = "panic: failed"

\* C12: Next called on a Failed graph aborts and returns no ready set, and
\* changes no vertex status and no graph status; ExecuteVertices never
\* reaches that abort, for it calls Next only while the status is Pending.
C12_NextAbortsOnFailed ==
    [][/\ (CallNext /\ Status = Failed)
            => /\ last'.res = "panic: failed"
               /\ last'.ret = <<>>
               /\ Vertices' = Vertices
               /\ Status' = Status
       /\ pc' = "next" => Status' = Pending
       /\ last'.op = "ExecuteVertices" => last'.res # "panic: failed"]_vars

\* C12 witness: the embedder's Next has aborted on a Failed graph that
\* holds a Pending vertex without Pending parents.
C12_Witness ==
    /\ last.op = "Next"
    /\ last.res = "panic: failed"
    /\ Status = Failed
    /\ \E id \in DOMAIN Vertices : Ready(id)

\* C13: in every reachable state HasFinished() returns what HasFailed() OR
\* HasSucceeded() gives there, HasFailed() and HasSucceeded() are never
\* both true, and a call of any of the three changes nothing of the graph,
\* the mutex or the run.
C13_Queries ==
    /\ [](/\ last.op = "HasFinished"
              => (last.res = "true"
                    <=> (Query("HasFailed", Status) \/ Query("HasSucceeded", Status)))
          /\ Query("HasFinished", Status)
                <=> (Query("HasFailed", Status) \/ Query("HasSucceeded", Status))
          /\ ~(Query("HasFailed", Status) /\ Query("HasSucceeded", Status)))
    /\ [][\A q \in {"HasFailed", "HasSucceeded", "HasFinished"} :
             CallQuery(q)
                => UNCHANGED <<graph, mu, pc, verticesToProcess, goroutines>>]_vars

\* C13 witness: HasFinished() has returned true on a graph that has Failed
\* and not succeeded.
C13_Witness ==
    /\ last.op = "HasFinished"
    /\ last.res = "true"
    /\ Status = Failed
    /\ IsStarted

\* C14: status writes exclude one another graph-wide: while a SetPass or
\* SetFail call holds the mutex no other attempt takes it, and the only
\* steps are that call's own, so the test of the graph status, the write of
\* the vertex status and the escalation are one step for every other
\* attempt.
C14_MutualExclusion ==
    [][mu # Unlocked
          => /\ SetPass \/ SetFail \/ SetFailEscalate
             /\ goroutines' = goroutines
             /\ \/ mu' = Unlocked
                \/ mu' = [mu EXCEPT !.at = "escalate"]]_vars

\* C14 witness: an attempt holds the mutex between its write of the vertex
\* status and its escalation while another attempt of the wave has yet to
\* take the mutex.
C14_Witness ==
    /\ mu.at = "escalate"
    /\ mu.idx > 0
    /\ \E i \in DOMAIN goroutines : goroutines[i] > 0

\* An attempt dispatched by a wave has not finished: its goroutine has not
\* yet taken the mutex, or holds it.
InFlight == mu.idx > 0 \/ \E i \in DOMAIN goroutines : goroutines[i] > 0

\* C15: waves never overlap: whenever ExecuteVertices evaluates
\* HasFinished(), computes a ready set with Next() or sets the graph status
\* to Passed, no attempt of an earlier wave is still running and the mutex
\* is free, so none of its reads is concurrent with a SetPass/SetFail write.
C15_WavesNeverOverlap ==
    pc \in {"loop", "next", "dispatch"} => (~InFlight /\ mu = Unlocked)

\* C15 witness: ExecuteVertices evaluates HasFinished() after a wave of
\* this run whose attempts have written: the graph was Pending when the run
\* was called and an attempt has made it Failed.
C15_Witness ==
    /\ pc = "loop"
    /\ last.op = "ExecuteVertices"
    /\ last.a = Pending
    /\ Status = Failed

\* C16: during ExecuteVertices every attempt dispatched for a ready vertex
\* records its outcome on that vertex: the only vertex whose status a step
\* of the attempt changes is the one it was dispatched for, also when the
\* wave holds several vertices.
C16_AttemptWritesOwnVertex ==
    [][mu.idx > 0
          => \A id \in DOMAIN Vertices :
                Vertices'[id] # Vertices[id]
                    => id = verticesToProcess[mu.idx].ID]_vars

\* C17: there is no cancellation: once a failure of a CanFail = false
\* vertex has made the graph Failed in the middle of a wave, every other
\* attempt of the wave still takes the mutex and completes, changing
\* nothing, before ExecuteVertices returns; after the barrier no further
\* wave is dispatched and ExecuteVertices returns with the status Failed.
C17_NoCancellation ==
    /\ [][(Running /\ Status = Failed)
             => /\ Status' = Failed
                /\ Vertices' = Vertices
                /\ pc' \in {"wait", "loop", "done"}
                /\ InFlight => pc' = "wait"
                /\ pc' = "done" => last'.res = "ok"
                /\ (\E i \in DOMAIN goroutines : goroutines[i] > 0)
                      => \/ goroutines' = goroutines
                         \/ \E i \in DOMAIN goroutines :
                               /\ goroutines' = [goroutines EXCEPT ![i] = @ - 1]
                               /\ mu'.idx = i]_vars
    /\ (pc = "wait" /\ Status = Failed)
          ~> (Returned /\ Status = Failed /\ last.res = "ok" /\ ~InFlight)

\* C17 witness: an attempt has escalated the graph to Failed and released
\* the mutex while attempts of the same wave have yet to run.
C17_Witness ==
    /\ pc = "wait"
    /\ Status = Failed
    /\ mu = Unlocked
    /\ \E i \in DOMAIN goroutines : goroutines[i] > 0

\* The status a SetPass or SetFail call writes.
Outcome(op) == IF op = "SetPass" THEN Passed ELSE Failed

\* C18: for a vertex with Loop > 1 in a wave that does not make the graph
\* Failed, the status of the vertex after the barrier is the outcome of the
\* one of its attempts that takes the mutex last: that attempt leaves the
\* vertex with its outcome and nothing changes the vertex in the rest of
\* the wave; and a failing attempt among the Loop attempts of a
\* CanFail = false vertex leaves the graph Failed when it releases the
\* mutex, whatever the order in which the attempts took it.
C18_LastWriteWins ==
    [][pc = "wait"
          => /\ \A i \in DOMAIN goroutines :
                   (/\ verticesToProcess[i].Loop > 1
                    /\ goroutines[i] = 0
                    /\ mu.idx # i)
                       => Vertices'[verticesToProcess[i].ID]
                              = Vertices[verticesToProcess[i].ID]
             /\ mu.idx > 0
                   => /\ (/\ verticesToProcess[mu.idx].Loop > 1
                          /\ goroutines[mu.idx] = 0
                          /\ mu.at = "locked"
                          /\ Status # Failed)
                             => Vertices'[verticesToProcess[mu.idx].ID].Status
                                    = Outcome(mu.op)
                      /\ (/\ ~verticesToProcess[mu.idx].CanFail
                          /\ mu.op = "SetFail"
                          /\ mu' = Unlocked)
                             => Status' = Failed]_vars

\* C19: ExecuteVertices respects the order of the dependencies: in no step
\* of a run does the status of a vertex leave Pending while one of the
\* vertices listed in ConnectionsParents for it is Pending, and the status
\* of a vertex that is Passed or Failed does not return to Pending.
C19_DependencyOrder ==
    [][Running
          => \A id \in DOMAIN Vertices :
                /\ id \in DOMAIN Vertices'
                /\ (Vertices[id].Status = Pending /\ Vertices'[id].Status # Pending)
                      => \A k \in DOMAIN ConnectionsParents[id] :
                            ConnectionsParents[id][k] \in DOMAIN Vertices
                                => Vertices[ConnectionsParents[id][k]].Status # Pending
                /\ Vertices[id].Status # Pending
                      => Vertices'[id].Status # Pending]_vars

\* C19 witness: an attempt of a run holds the mutex to write the status of
\* a Pending vertex that has a registered parent, on a graph that is not
\* Failed.
C19_Witness ==
    /\ pc = "wait"
    /\ mu.idx > 0
    /\ mu.at = "locked"
    /\ Status # Failed
    /\ Vertices[mu.id].Status = Pending
    /\ \E k \in DOMAIN ConnectionsParents[mu.id] :
          /\ ConnectionsParents[mu.id][k] \in DOMAIN Vertices
          /\ ConnectionsParents[mu.id][k] # mu.id

\* Some registered vertex with CanFail = false has the status Failed.
EscalatedVertex ==
    \E id \in DOMAIN Vertices :
        ~Vertices[id].CanFail /\ Vertices[id].Status = Failed

\* C20: in every state of a run of ExecuteVertices in which the mutex is
\* not held, the graph status is Failed iff some vertex with CanFail = false
\* has the status Failed.
C20_FailedIffEscalatedVertex ==
    (Running /\ mu = Unlocked) => (Status = Failed <=> EscalatedVertex)

====
